---- MODULE Spec2Model ----
(***************************************************************************)
(* The file-backed learning-platform server: one HTTP request handler      *)
(* over two JSON documents (users.json, courses.json) and an uploads       *)
(* directory.  Every request reads the documents from disk, edits the      *)
(* in-memory copy and rewrites the whole document.  The database variant  *)
(* (server_pg.js), an Express application over a PostgreSQL pool with its  *)
(* sessions in process memory, is modelled in the same module.             *)
(***************************************************************************)
EXTENDS Integers, Sequences, FiniteSets, TLC

(***************************************************************************)
(* Bounds of the exploration.                                              *)
(***************************************************************************)
\* number of requests served in one behaviour
MaxSteps == 4
\* number of requests suspended at the same time
MaxFlight == 2

(***************************************************************************)
(* JavaScript values.  t is the type tag; n the number, s the string (a    *)
(* sequence of one-letter or one-word pieces), a the elements of an array  *)
(* or the <<key, value>> properties of an object, in insertion order.      *)
(***************************************************************************)
Undef == [t |-> "undef", n |-> 0, s |-> <<>>, a |-> <<>>]
Null == [t |-> "null", n |-> 0, s |-> <<>>, a |-> <<>>]
Inf == [t |-> "inf", n |-> 0, s |-> <<>>, a |-> <<>>]
True == [t |-> "true", n |-> 0, s |-> <<>>, a |-> <<>>]
Num(n) == [t |-> "num", n |-> n, s |-> <<>>, a |-> <<>>]
Str(s) == [t |-> "str", n |-> 0, s |-> s, a |-> <<>>]
Arr(a) == [t |-> "arr", n |-> 0, s |-> <<>>, a |-> a]
Obj(p) == [t |-> "obj", n |-> 0, s |-> <<>>, a |-> p]

\* !v
Truthy(v) ==
  CASE v.t \in {"undef", "null"} -> FALSE
    [] v.t = "num" -> v.n # 0
    [] v.t = "str" -> v.s # <<>>
    [] OTHER -> TRUE

\* typeof v === 'number'
IsNumber(v) == v.t \in {"num", "inf"}

\* v < k and v > k for a number v and a finite k (Infinity is above all)
LessThan(v, k) == v.t = "num" /\ v.n < k
\* a comparison that lets every number pass
GreaterThanNever(v, k) == FALSE
GreaterThan(v, k) == v.t = "inf" \/ (v.t = "num" /\ v.n > k)

HasKey(o, k) == \E i \in DOMAIN o.a : o.a[i][1] = k

\* o.k (undefined for a missing property and for a primitive)
Get(o, k) ==
  IF o.t = "obj" /\ HasKey(o, k)
  THEN o.a[CHOOSE i \in DOMAIN o.a : o.a[i][1] = k][2]
  ELSE Undef

\* o.k = v
Set(o, k, v) ==
  IF HasKey(o, k)
  THEN Obj([i \in DOMAIN o.a |-> IF o.a[i][1] = k THEN <<k, v>> ELSE o.a[i]])
  ELSE Obj(Append(o.a, <<k, v>>))

\* the rest pattern without the password taken out
OmitNothing(o, k) == o

\* const { k: _, ...rest } = o
Omit(o, k) == Obj(SelectSeq(o.a, LAMBDA p : p[1] # k))

\* const { ... } = v and v.k throw a TypeError on null and undefined
Destructurable(v) == v.t \notin {"undef", "null"}

ToLowerChar(c) ==
  CASE c = "A" -> "a"
    [] c = "B" -> "b"
    [] OTHER -> c

\* String.prototype.toLowerCase
toLowerCase(s) == [i \in DOMAIN s |-> ToLowerChar(s[i])]

(***************************************************************************)
(* JSON text.  k is the kind of the token; a document on disk or in a      *)
(* request or response body is one token.  "overflow" is a number literal  *)
(* beyond the double range (1e999), "garbage" a text that is not JSON,     *)
(* "empty" the empty text, "absent" a file that does not exist.            *)
(***************************************************************************)
JNull == [k |-> "null", n |-> 0, s |-> <<>>, a |-> <<>>]
JNumber(n) == [k |-> "number", n |-> n, s |-> <<>>, a |-> <<>>]
JTrue == [k |-> "true", n |-> 0, s |-> <<>>, a |-> <<>>]
JOverflow == [k |-> "overflow", n |-> 0, s |-> <<>>, a |-> <<>>]
JString(s) == [k |-> "string", n |-> 0, s |-> s, a |-> <<>>]
JArray(a) == [k |-> "array", n |-> 0, s |-> <<>>, a |-> a]
JObject(p) == [k |-> "object", n |-> 0, s |-> <<>>, a |-> p]
JGarbage == [k |-> "garbage", n |-> 0, s |-> <<>>, a |-> <<>>]
JEmpty == [k |-> "empty", n |-> 0, s |-> <<>>, a |-> <<>>]
JAbsent == [k |-> "absent", n |-> 0, s |-> <<>>, a |-> <<>>]

RECURSIVE Stringify(_)
\* JSON.stringify: a non-finite number and an undefined array element are
\* written as null, a property whose value is undefined is left out
Stringify(v) ==
  CASE v.t = "num" -> JNumber(v.n)
    [] v.t = "true" -> JTrue
    [] v.t = "str" -> JString(v.s)
    [] v.t = "arr" -> JArray([i \in DOMAIN v.a |-> Stringify(v.a[i])])
    [] v.t = "obj" ->
         LET own == SelectSeq(v.a, LAMBDA p : p[2].t # "undef")
         IN JObject([i \in DOMAIN own |-> <<own[i][1], Stringify(own[i][2])>>])
    [] OTHER -> JNull

\* JSON.parse throws a SyntaxError on these
Parsable(j) == j.k \notin {"garbage", "empty", "absent"}

RECURSIVE Parse(_)
\* JSON.parse of a parsable text
Parse(j) ==
  CASE j.k = "number" -> Num(j.n)
    [] j.k = "true" -> True
    [] j.k = "overflow" -> Inf
    [] j.k = "string" -> Str(j.s)
    [] j.k = "array" -> Arr([i \in DOMAIN j.a |-> Parse(j.a[i])])
    [] j.k = "object" -> Obj([i \in DOMAIN j.a |-> <<j.a[i][1], Parse(j.a[i][2])>>])
    [] OTHER -> Null

(***************************************************************************)
(* State.                                                                  *)
(***************************************************************************)
VARIABLES
  usersFile,    \* text of data/users.json
  coursesFile,  \* text of data/courses.json
  uploads,      \* names of the files in public/uploads
  req,          \* the request served last
  res,          \* the response to it
  io,           \* the file writes it attempted, in order
  steps,        \* requests served so far
  flight,       \* requests whose handler is suspended at await parseRequestBody
  done,         \* the requests answered after a suspension, in the order answered
  pool,         \* database variant: whether DATABASE_URL gave a connection pool
  sessions,     \* database variant: the own properties of sessions, token -> user id
  dbUsers,      \* database variant: the rows of table users, in insertion order
  dbSeq,        \* database variant: the last value of the sequence behind users.id
  dbSubmissions,\* database variant: the rows of table submissions
  suspended,    \* database variant: register handlers between their two statements
  sql,          \* database variant: the statements the request answered last issued
  publicFiles   \* names of the regular files in public, uploads apart

fileVars == <<usersFile, coursesFile, uploads, io, flight, done, publicFiles>>
pgVars == <<pool, sessions, dbUsers, dbSeq, dbSubmissions, suspended, sql>>
vars == <<usersFile, coursesFile, uploads, req, res, io, steps, flight, done,
          pool, sessions, dbUsers, dbSeq, dbSubmissions, suspended, sql, publicFiles>>

S(w) == Str(<<w>>)

\* the course definitions ensureDataFiles writes into a fresh data directory
defaultCourses ==
  Arr(<< Obj(<< <<"id", Num(1)>>, <<"title", S("Introduction to the Platform")>>,
               <<"description", S("Learn about the basics of this learning platform.")>>,
               <<"content", S("Welcome to the introduction course.")>> >>),
         Obj(<< <<"id", Num(2)>>, <<"title", S("Advanced Concepts")>>,
               <<"description", S("Dive deeper into advanced topics.")>>,
               <<"content", S("This course covers advanced concepts.")>> >>),
         Obj(<< <<"id", Num(3)>>, <<"title", S("Practical Exercises")>>,
               <<"description", S("Hands-on exercises to practice what you have learned.")>>,
               <<"content", S("Here you will find practical exercises.")>> >>) >>)

(***************************************************************************)
(* Persistence.                                                            *)
(***************************************************************************)
\* readUsers: fs.readFileSync is outside the try, JSON.parse inside it
readUsersThrows(file) == file.k = "absent"
readUsers(file) == IF Parsable(file) THEN Parse(file) ELSE Arr(<<>>)

\* readCourses: both the read and the parse are inside the try
readCourses(file) == IF Parsable(file) THEN Parse(file) ELSE Arr(<<>>)

\* A fault names the write of the request that fails (0: none) and whether
\* the failing fs.writeFileSync had already truncated the file.
NoFault == [at |-> 0, trunc |-> FALSE]
Faults == {NoFault} \cup [at : {1, 2}, trunc : BOOLEAN]

\* content of a file after the k-th write of the request, fs.writeFileSync
\* of JSON.stringify(doc, null, 2) over the old content
writeFile(old, doc, fault, k) ==
  IF fault.at = k THEN (IF fault.trunc THEN JGarbage ELSE old) ELSE Stringify(doc)

writeUsers(old, users, fault, k) == writeFile(old, users, fault, k)
writeCourses(old, courses, fault, k) == writeFile(old, courses, fault, k)

\* a catch that resolves the promise with nothing
parseRequestBodyNoDefault(raw) ==
  IF raw.k = "empty" THEN Obj(<<>>) ELSE IF ~Parsable(raw) THEN Undef ELSE Parse(raw)

\* parseRequestBody: an empty body and a body that fails to parse give {}
parseRequestBody(raw) ==
  IF raw.k = "empty" \/ ~Parsable(raw) THEN Obj(<<>>) ELSE Parse(raw)

(***************************************************************************)
(* Responses and handler outcomes.                                         *)
(***************************************************************************)
\* res.statusCode = status; res.end(JSON.stringify(value))
Reply(status, value) == [sent |-> TRUE, status |-> status, body |-> Stringify(value)]
\* the handler threw: the promise of the async handler is rejected and
\* nothing is ever written to the response
NoReply == [sent |-> FALSE, status |-> 0, body |-> JEmpty]
Error(msg) == Obj(<< <<"error", S(msg)>> >>)

W(file, ok) == [file |-> file, ok |-> ok]
Out(uf, cf, up, r, w) == [uf |-> uf, cf |-> cf, up |-> up, res |-> r, io |-> w]

SetMin(T) == CHOOSE x \in T : \A y \in T : x <= y
SetMax(T) == CHOOSE x \in T : \A y \in T : x >= y

\* Array.prototype.some / find / findIndex with a callback that may throw:
\* Test(u) is "yes", "no" or "throw"; the scan stops at the first element
\* that is not "no".
Scan(arr, Test(_)) ==
  LET hit == {i \in DOMAIN arr : Test(arr[i]) # "no"}
  IN IF hit = {} THEN [kind |-> "none", at |-> 0]
     ELSE [kind |-> IF Test(arr[SetMin(hit)]) = "throw" THEN "throw" ELSE "found",
           at |-> SetMin(hit)]

\* u.email.toLowerCase() === email.toLowerCase(): the left call throws when
\* the stored email is not a string, the right one when the given is not
sameEmail(u, email) ==
  IF Get(u, "email").t # "str" \/ email.t # "str" THEN "throw"
  ELSE IF toLowerCase(Get(u, "email").s) = toLowerCase(email.s) THEN "yes" ELSE "no"

\* the largest id without the increment
nextIdNoIncrement(arr) ==
  IF Len(arr) > 0 THEN SetMax({Get(arr[i], "id").n : i \in DOMAIN arr}) ELSE 1

\* Math.max(...arr.map((x) => x.id)) + 1, or 1 for an empty array
nextId(arr) ==
  IF Len(arr) > 0 THEN SetMax({Get(arr[i], "id").n : i \in DOMAIN arr}) + 1 ELSE 1

(***************************************************************************)
(* POST /api/register                                                      *)
(***************************************************************************)
register(raw, uf, cf, up, fault) ==
  LET body == parseRequestBody(raw)
      name == Get(body, "name")
      email == Get(body, "email")
      password == Get(body, "password")
  IN
  IF ~Destructurable(body) THEN Out(uf, cf, up, NoReply, <<>>)
  ELSE IF ~Truthy(name) \/ ~Truthy(email) \/ ~Truthy(password)
  THEN Out(uf, cf, up, Reply(400, Error("Name, email and password are required.")), <<>>)
  ELSE IF readUsersThrows(uf) THEN Out(uf, cf, up, NoReply, <<>>)
  ELSE
  LET users == readUsers(uf)
      taken == Scan(users.a, LAMBDA u : sameEmail(u, email))
      newId == nextId(users.a)
      courses == readCourses(cf)
      userCourses == [i \in DOMAIN courses.a |->
                        Obj(<< <<"id", Get(courses.a[i], "id")>>, <<"progress", Num(0)>> >>)]
      newUser == Obj(<< <<"id", Num(newId)>>, <<"name", name>>, <<"email", email>>,
                        <<"password", password>>, <<"courses", Arr(userCourses)>>,
                        <<"profilePicture", Null>> >>)
      pushed == Arr(Append(users.a, newUser))
  IN
  IF taken.kind = "throw" THEN Out(uf, cf, up, NoReply, <<>>)
  ELSE IF taken.kind = "found"
  THEN Out(uf, cf, up, Reply(409, Error("A user with this email already exists.")), <<>>)
  ELSE IF fault.at = 1
  THEN Out(writeUsers(uf, pushed, fault, 1), cf, up, NoReply, <<W("users", FALSE)>>)
  ELSE Out(writeUsers(uf, pushed, fault, 1), cf, up,
           Reply(200, Omit(newUser, "password")), <<W("users", TRUE)>>)

(***************************************************************************)
(* POST /api/login                                                         *)
(***************************************************************************)
login(raw, uf, cf, up) ==
  LET body == parseRequestBody(raw)
      email == Get(body, "email")
      password == Get(body, "password")
  IN
  IF ~Destructurable(body) THEN Out(uf, cf, up, NoReply, <<>>)
  ELSE IF ~Truthy(email) \/ ~Truthy(password)
  THEN Out(uf, cf, up, Reply(400, Error("Email and password are required.")), <<>>)
  ELSE IF readUsersThrows(uf) THEN Out(uf, cf, up, NoReply, <<>>)
  ELSE
  LET users == readUsers(uf)
      user == Scan(users.a, LAMBDA u :
                IF sameEmail(u, email) = "yes"
                THEN (IF Get(u, "password") = password THEN "yes" ELSE "no")
                ELSE sameEmail(u, email))
  IN
  IF user.kind = "throw" THEN Out(uf, cf, up, NoReply, <<>>)
  ELSE IF user.kind = "none"
  THEN Out(uf, cf, up, Reply(401, Error("Invalid email or password.")), <<>>)
  ELSE Out(uf, cf, up, Reply(200, Omit(users.a[user.at], "password")), <<>>)

\* a lookup that falls back to the first element when none has the id
indexOfIdOrFirst(arr, id) ==
  LET hit == {i \in DOMAIN arr : Get(arr[i], "id") = Num(id)}
  IN IF hit = {} THEN (IF arr = <<>> THEN 0 ELSE 1) ELSE SetMin(hit)

\* users.find((u) => u.id === id): index of the first such element, or 0
indexOfId(arr, id) ==
  LET hit == {i \in DOMAIN arr : Get(arr[i], "id") = Num(id)}
  IN IF hit = {} THEN 0 ELSE SetMin(hit)

(***************************************************************************)
(* GET /api/user/:id/courses                                               *)
(***************************************************************************)
getUserCourses(userId, uf, cf, up) ==
  IF readUsersThrows(uf) THEN Out(uf, cf, up, NoReply, <<>>)
  ELSE
  LET users == readUsers(uf)
      at == indexOfId(users.a, userId)
  IN
  IF at = 0 THEN Out(uf, cf, up, Reply(404, Error("User not found.")), <<>>)
  ELSE Out(uf, cf, up, Reply(200, Get(users.a[at], "courses")), <<>>)

(***************************************************************************)
(* PUT /api/user/:id/course/:id/progress                                   *)
(***************************************************************************)
updateProgress(userId, courseId, raw, uf, cf, up, fault) ==
  LET body == parseRequestBody(raw)
      progress == Get(body, "progress")
  IN
  IF ~Destructurable(body) THEN Out(uf, cf, up, NoReply, <<>>)
  ELSE IF ~IsNumber(progress) \/ LessThan(progress, 0) \/ GreaterThan(progress, 100)
  THEN Out(uf, cf, up, Reply(400, Error("Progress must be a number between 0 and 100.")), <<>>)
  ELSE IF readUsersThrows(uf) THEN Out(uf, cf, up, NoReply, <<>>)
  ELSE
  LET users == readUsers(uf)
      at == indexOfId(users.a, userId)
  IN
  IF at = 0 THEN Out(uf, cf, up, Reply(404, Error("User not found.")), <<>>)
  ELSE
  LET user == users.a[at]
      ucs == Get(user, "courses")
      cat == indexOfId(ucs.a, courseId)
  IN
  IF cat = 0 THEN Out(uf, cf, up, Reply(404, Error("Course not found for this user.")), <<>>)
  ELSE
  LET edited == Arr([users.a EXCEPT ![at] =
                  Set(user, "courses",
                      Arr([ucs.a EXCEPT ![cat] = Set(ucs.a[cat], "progress", progress)]))])
  IN
  IF fault.at = 1
  THEN Out(writeUsers(uf, edited, fault, 1), cf, up, NoReply, <<W("users", FALSE)>>)
  ELSE Out(writeUsers(uf, edited, fault, 1), cf, up,
           Reply(200, Obj(<< <<"success", True>> >>)), <<W("users", TRUE)>>)

(***************************************************************************)
(* GET /api/courses and GET /api/courses/:id                               *)
(***************************************************************************)
listCourses(uf, cf, up) == Out(uf, cf, up, Reply(200, readCourses(cf)), <<>>)

getCourse(courseId, uf, cf, up) ==
  LET courses == readCourses(cf)
      at == indexOfId(courses.a, courseId)
  IN
  IF at = 0 THEN Out(uf, cf, up, Reply(404, Error("Course not found.")), <<>>)
  ELSE Out(uf, cf, up, Reply(200, courses.a[at]), <<>>)

(***************************************************************************)
(* POST /api/admin/courses                                                 *)
(***************************************************************************)
\* const { k = dflt } = body
Default(v, dflt) == IF v.t = "undef" THEN dflt ELSE v

\* a forEach body that pushes the record only to a user without any record
addCourseToUserIfNone(u, newId) ==
  LET ucs == Get(u, "courses")
  IN IF ucs.a # <<>> THEN u
     ELSE Set(u, "courses",
              Arr(Append(ucs.a, Obj(<< <<"id", Num(newId)>>, <<"progress", Num(0)>> >>))))

\* the body of users.forEach: push a record with progress 0 unless the
\* user already has a record with this id
addCourseToUser(u, newId) ==
  LET ucs == Get(u, "courses")
  IN IF indexOfId(ucs.a, newId) # 0 THEN u
     ELSE Set(u, "courses",
              Arr(Append(ucs.a, Obj(<< <<"id", Num(newId)>>, <<"progress", Num(0)>> >>))))

createCourse(raw, uf, cf, up, fault) ==
  LET body == parseRequestBody(raw)
      title == Get(body, "title")
      description == Default(Get(body, "description"), Str(<<>>))
      content == Default(Get(body, "content"), Str(<<>>))
  IN
  IF ~Destructurable(body) THEN Out(uf, cf, up, NoReply, <<>>)
  ELSE IF ~Truthy(title)
  THEN Out(uf, cf, up, Reply(400, Error("Title is required.")), <<>>)
  ELSE
  LET courses == readCourses(cf)
      newId == nextId(courses.a)
      newCourse == Obj(<< <<"id", Num(newId)>>, <<"title", title>>,
                          <<"description", description>>, <<"content", content>> >>)
      cf1 == writeCourses(cf, Arr(Append(courses.a, newCourse)), fault, 1)
      users == readUsers(uf)
      added == Arr([i \in DOMAIN users.a |-> addCourseToUser(users.a[i], newId)])
  IN
  IF fault.at = 1 THEN Out(uf, cf1, up, NoReply, <<W("courses", FALSE)>>)
  ELSE IF readUsersThrows(uf) THEN Out(uf, cf1, up, NoReply, <<W("courses", TRUE)>>)
  ELSE IF fault.at = 2
  THEN Out(writeUsers(uf, added, fault, 2), cf1, up, NoReply,
           <<W("courses", TRUE), W("users", FALSE)>>)
  ELSE Out(writeUsers(uf, added, fault, 2), cf1, up, Reply(200, newCourse),
           <<W("courses", TRUE), W("users", TRUE)>>)

(***************************************************************************)
(* PUT/PATCH /api/admin/courses/:id                                        *)
(***************************************************************************)
\* if (body.k !== undefined) o.k = body.k
Overwrite(o, body, k) == IF Get(body, k).t # "undef" THEN Set(o, k, Get(body, k)) ELSE o

updateCourse(courseId, raw, uf, cf, up, fault) ==
  LET body == parseRequestBody(raw)
      courses == readCourses(cf)
      at == indexOfId(courses.a, courseId)
  IN
  IF at = 0 THEN Out(uf, cf, up, Reply(404, Error("Course not found.")), <<>>)
  ELSE IF ~Destructurable(body) THEN Out(uf, cf, up, NoReply, <<>>)
  ELSE
  LET course == Overwrite(Overwrite(Overwrite(courses.a[at], body, "title"),
                                    body, "description"), body, "content")
      edited == Arr([courses.a EXCEPT ![at] = course])
  IN
  IF fault.at = 1
  THEN Out(uf, writeCourses(cf, edited, fault, 1), up, NoReply, <<W("courses", FALSE)>>)
  ELSE Out(uf, writeCourses(cf, edited, fault, 1), up, Reply(200, course),
           <<W("courses", TRUE)>>)

(***************************************************************************)
(* GET /api/admin/users and GET /api/user/:id                              *)
(***************************************************************************)
listUsers(uf, cf, up) ==
  IF readUsersThrows(uf) THEN Out(uf, cf, up, NoReply, <<>>)
  ELSE
  LET users == readUsers(uf)
      sanitized == Arr([i \in DOMAIN users.a |-> Omit(users.a[i], "password")])
  IN Out(uf, cf, up, Reply(200, sanitized), <<>>)

getUser(userId, uf, cf, up) ==
  IF readUsersThrows(uf) THEN Out(uf, cf, up, NoReply, <<>>)
  ELSE
  LET users == readUsers(uf)
      at == indexOfId(users.a, userId)
  IN
  IF at = 0 THEN Out(uf, cf, up, Reply(404, Error("User not found.")), <<>>)
  ELSE Out(uf, cf, up, Reply(200, Omit(users.a[at], "password")), <<>>)

(***************************************************************************)
(* PUT/PATCH /api/user/:id                                                 *)
(***************************************************************************)
updateUser(userId, raw, uf, cf, up, fault) ==
  LET body == parseRequestBody(raw) IN
  IF readUsersThrows(uf) THEN Out(uf, cf, up, NoReply, <<>>)
  ELSE
  LET users == readUsers(uf)
      at == indexOfId(users.a, userId)
  IN
  IF at = 0 THEN Out(uf, cf, up, Reply(404, Error("User not found.")), <<>>)
  ELSE IF ~Destructurable(body) THEN Out(uf, cf, up, NoReply, <<>>)
  ELSE
  LET \* body.email && users.some(...)
      inUse == IF Truthy(Get(body, "email"))
               THEN Scan(users.a, LAMBDA u :
                      IF sameEmail(u, Get(body, "email")) = "yes"
                      THEN (IF Get(u, "id") # Num(userId) THEN "yes" ELSE "no")
                      ELSE sameEmail(u, Get(body, "email")))
               ELSE [kind |-> "none", at |-> 0]
      user == Overwrite(Overwrite(Overwrite(users.a[at], body, "name"),
                                  body, "email"), body, "password")
      edited == Arr([users.a EXCEPT ![at] = user])
  IN
  IF inUse.kind = "throw" THEN Out(uf, cf, up, NoReply, <<>>)
  ELSE IF inUse.kind = "found"
  THEN Out(uf, cf, up, Reply(409, Error("Email is already in use by another account.")), <<>>)
  ELSE IF fault.at = 1
  THEN Out(writeUsers(uf, edited, fault, 1), cf, up, NoReply, <<W("users", FALSE)>>)
  ELSE Out(writeUsers(uf, edited, fault, 1), cf, up,
           Reply(200, Omit(user, "password")), <<W("users", TRUE)>>)

(***************************************************************************)
(* POST /api/user/:id/profile-picture                                      *)
(***************************************************************************)
\* imageData.startsWith('data:image')
startsWithDataImage(s) == Len(s) >= 1 /\ s[1] = "data:image"
\* imageData.match(/^data:(image\/[^;]+);base64,(.+)$/)
matchesDataUri(s) ==
  /\ Len(s) = 4
  /\ s[1] = "data:image"
  /\ s[2] \in {"/png", "/jpeg"}
  /\ s[3] = ";base64,"
\* mimeType.split('/')[1] || 'png'
extOf(s) == IF s[2] = "/jpeg" THEN "jpeg" ELSE "png"

uploadPicture(userId, raw, now, uf, cf, up, fault) ==
  LET body == parseRequestBody(raw)
      imageData == Get(body, "imageData")
  IN
  IF ~Destructurable(body) THEN Out(uf, cf, up, NoReply, <<>>)
  ELSE IF ~Truthy(imageData) \/ imageData.t # "str" \/ ~startsWithDataImage(imageData.s)
  THEN Out(uf, cf, up, Reply(400, Error("Invalid image data.")), <<>>)
  ELSE IF ~matchesDataUri(imageData.s)
  THEN Out(uf, cf, up, Reply(400, Error("Invalid image data.")), <<>>)
  ELSE
  LET fileName == <<"user-", ToString(userId), "-", ToString(now), ".", extOf(imageData.s)>>
      up1 == IF fault.at = 1 THEN up ELSE up \cup {fileName}
  IN
  IF fault.at = 1 THEN Out(uf, cf, up1, NoReply, <<W("upload", FALSE)>>)
  ELSE IF readUsersThrows(uf) THEN Out(uf, cf, up1, NoReply, <<W("upload", TRUE)>>)
  ELSE
  LET users == readUsers(uf)
      at == indexOfId(users.a, userId)
  IN
  IF at = 0
  THEN Out(uf, cf, up1, Reply(404, Error("User not found.")), <<W("upload", TRUE)>>)
  ELSE
  LET url == Str(<<"/uploads/">> \o fileName)
      edited == Arr([users.a EXCEPT ![at] = Set(users.a[at], "profilePicture", url)])
  IN
  IF fault.at = 2
  THEN Out(writeUsers(uf, edited, fault, 2), cf, up1, NoReply,
           <<W("upload", TRUE), W("users", FALSE)>>)
  ELSE Out(writeUsers(uf, edited, fault, 2), cf, up1,
           Reply(200, Obj(<< <<"success", True>>, <<"url", url>> >>)),
           <<W("upload", TRUE), W("users", TRUE)>>)

(***************************************************************************)
(* Any other /api path                                                     *)
(***************************************************************************)
unknownRoute(uf, cf, up) == Out(uf, cf, up, Reply(404, Error("Not found")), <<>>)

(***************************************************************************)
(* Requests.                                                               *)
(***************************************************************************)
St(w) == JString(<<w>>)

\* a JSON object text; a field given as JAbsent is left out of the text
RawObject(pairs) == JObject(SelectSeq(pairs, LAMBDA p : p[2].k # "absent"))

\* a body that is not JSON, and the JSON text null
Malformed == {JGarbage, JNull}

User(n, e, p) == RawObject(<< <<"name", n>>, <<"email", e>>, <<"password", p>> >>)

RegisterBodies ==
  { User(St("n"), e, St("p")) : e \in {St("a"), St("A"), St("b")} }
  \cup { User(JOverflow, St("b"), St("p")),
         User(JAbsent, St("a"), St("p")),
         User(St("n"), JAbsent, St("p")),
         User(St("n"), St("a"), JAbsent) }
  \cup Malformed

LoginBodies ==
  { RawObject(<< <<"email", e>>, <<"password", p>> >>) :
      e \in {St("a"), St("A")}, p \in {St("p"), St("q")} }
  \cup { RawObject(<< <<"email", St("b")>>, <<"password", St("p")>> >>),
         RawObject(<< <<"email", St("a")>>, <<"password", JString(<<>>)>> >>),
         RawObject(<< <<"password", St("p")>> >>),
         RawObject(<<>>) }
  \cup Malformed

ProgressBodies ==
  { RawObject(<< <<"progress", g>> >>) :
      g \in {JAbsent, St("50"), JNumber(-1), JNumber(101), JOverflow, JNumber(100)} }
  \cup Malformed

CourseBodies ==
  { RawObject(<< <<"title", t>>, <<"description", d>> >>) :
      t \in {St("t")}, d \in {JAbsent, St("d")} }
  \cup {RawObject(<<>>)}
  \cup Malformed

CourseUpdateBodies ==
  { RawObject(<<>>),
    RawObject(<< <<"title", St("u")>> >>),
    RawObject(<< <<"content", St("c")>> >>) }
  \cup Malformed

UserUpdateBodies ==
  { User(JAbsent, e, JAbsent) : e \in {JAbsent, JString(<<>>), JNull, St("a"), St("B")} }
  \cup { User(St("m"), JAbsent, JAbsent),
         User(JAbsent, JAbsent, St("q")),
         User(St("m"), St("b"), St("q")) }
  \cup Malformed

UploadBodies ==
  { RawObject(<< <<"imageData", d>> >>) :
      d \in {JAbsent, St("x"), JString(<<"data:image", "/png">>),
             JString(<<"data:image", "/png", ";base64,", "AAAA">>)} }
  \cup Malformed

\* ids in request paths (\d+), and readings of Date.now()
UserIds == {1, 2}
CourseIds == {1, 4}
ProgressTargets == {<<1, 1>>, <<2, 1>>, <<1, 4>>}
UploadIds == {1}
Timestamps == {1000}

NoRequest == [op |-> "none", user |-> 0, course |-> 0, body |-> JEmpty, now |-> 0]

\* the database variant right after start-up, with or without a pool
InitDatabase(configured) ==
  /\ pool = configured
  /\ sessions = <<>>
  /\ dbUsers = <<>>
  /\ dbSeq = 0
  /\ dbSubmissions = <<>>
  /\ suspended = <<>>
  /\ sql = <<>>

Init ==
  /\ usersFile = Stringify(Arr(<<>>))
  /\ coursesFile = Stringify(defaultCourses)
  /\ uploads = {}
  /\ req = NoRequest
  /\ res = NoReply
  /\ io = <<>>
  /\ steps = 0
  /\ flight = <<>>
  /\ done = <<>>
  /\ publicFiles = {"index.html", "app.js"}
  /\ InitDatabase(FALSE)

\* one request is served from its fully received body to the end of its handler
Serve(op, user, course, raw, now, out) ==
  /\ req = NoRequest
  /\ steps < MaxSteps
  /\ usersFile' = out.uf
  /\ coursesFile' = out.cf
  /\ uploads' = out.up
  /\ req' = [op |-> op, user |-> user, course |-> course, body |-> raw, now |-> now]
  /\ res' = out.res
  /\ io' = out.io
  /\ steps' = steps + 1
  /\ UNCHANGED <<flight, done, pgVars, publicFiles>>

Register(raw, fault) ==
  Serve("register", 0, 0, raw, 0, register(raw, usersFile, coursesFile, uploads, fault))
Login(raw) ==
  Serve("login", 0, 0, raw, 0, login(raw, usersFile, coursesFile, uploads))
GetUserCourses(userId) ==
  Serve("getUserCourses", userId, 0, JEmpty, 0,
        getUserCourses(userId, usersFile, coursesFile, uploads))
UpdateProgress(userId, courseId, raw, fault) ==
  Serve("updateProgress", userId, courseId, raw, 0,
        updateProgress(userId, courseId, raw, usersFile, coursesFile, uploads, fault))
ListCourses ==
  Serve("listCourses", 0, 0, JEmpty, 0, listCourses(usersFile, coursesFile, uploads))
GetCourse(courseId) ==
  Serve("getCourse", 0, courseId, JEmpty, 0,
        getCourse(courseId, usersFile, coursesFile, uploads))
CreateCourse(raw, fault) ==
  Serve("createCourse", 0, 0, raw, 0,
        createCourse(raw, usersFile, coursesFile, uploads, fault))
UpdateCourse(courseId, raw, fault) ==
  Serve("updateCourse", 0, courseId, raw, 0,
        updateCourse(courseId, raw, usersFile, coursesFile, uploads, fault))
ListUsers ==
  Serve("listUsers", 0, 0, JEmpty, 0, listUsers(usersFile, coursesFile, uploads))
GetUser(userId) ==
  Serve("getUser", userId, 0, JEmpty, 0, getUser(userId, usersFile, coursesFile, uploads))
UpdateUser(userId, raw, fault) ==
  Serve("updateUser", userId, 0, raw, 0,
        updateUser(userId, raw, usersFile, coursesFile, uploads, fault))
UploadPicture(userId, raw, now, fault) ==
  Serve("uploadPicture", userId, 0, raw, now,
        uploadPicture(userId, raw, now, usersFile, coursesFile, uploads, fault))
UnknownRoute ==
  Serve("unknownRoute", 0, 0, JEmpty, 0, unknownRoute(usersFile, coursesFile, uploads))

\* the exchange is over; the server waits for the next request
Finish ==
  /\ req # NoRequest
  /\ req' = NoRequest
  /\ res' = NoReply
  /\ io' = <<>>
  /\ sql' = <<>>
  /\ UNCHANGED <<usersFile, coursesFile, uploads, steps, flight, done, publicFiles>>
  /\ UNCHANGED <<pool, sessions, dbUsers, dbSeq, dbSubmissions, suspended>>

\* the requests the server answers, with the given file-system faults
Requests(F) ==
  \/ \E raw \in RegisterBodies, f \in F : Register(raw, f)
  \/ \E raw \in LoginBodies : Login(raw)
  \/ \E u \in UserIds : GetUserCourses(u)
  \/ \E t \in ProgressTargets, raw \in ProgressBodies, f \in F :
       UpdateProgress(t[1], t[2], raw, f)
  \/ ListCourses
  \/ \E c \in CourseIds : GetCourse(c)
  \/ \E raw \in CourseBodies, f \in F : CreateCourse(raw, f)
  \/ \E c \in CourseIds, raw \in CourseUpdateBodies, f \in F : UpdateCourse(c, raw, f)
  \/ ListUsers
  \/ \E u \in UserIds : GetUser(u)
  \/ \E u \in UserIds, raw \in UserUpdateBodies, f \in F : UpdateUser(u, raw, f)
  \/ \E u \in UploadIds, raw \in UploadBodies, t \in Timestamps, f \in F :
       UploadPicture(u, raw, t, f)
  \/ UnknownRoute

\* every write succeeds
Next == Requests({NoFault}) \/ Finish
Spec == Init /\ [][Next]_vars

\* a write may fail
NextFault == Requests(Faults) \/ Finish
SpecFault == Init /\ [][NextFault]_vars

(***************************************************************************)
(* The data directory as something other than the server may leave it      *)
(* after start-up: a data file removed, emptied or overwritten.            *)
(***************************************************************************)
\* <<text of users.json, text of courses.json>>
StoreStates ==
  { <<Stringify(Arr(<<>>)), Stringify(defaultCourses)>>,
    <<JAbsent, Stringify(defaultCourses)>>,
    <<JGarbage, Stringify(defaultCourses)>>,
    <<JEmpty, Stringify(defaultCourses)>>,
    <<Stringify(Arr(<<>>)), JAbsent>>,
    <<Stringify(Arr(<<>>)), JGarbage>>,
    <<JAbsent, JAbsent>> }

InitStore ==
  /\ \E st \in StoreStates : usersFile = st[1] /\ coursesFile = st[2]
  /\ uploads = {}
  /\ req = NoRequest
  /\ res = NoReply
  /\ io = <<>>
  /\ steps = 0
  /\ flight = <<>>
  /\ done = <<>>
  /\ publicFiles = {"index.html", "app.js"}
  /\ InitDatabase(FALSE)

SpecStore == InitStore /\ [][Next]_vars

(***************************************************************************)
(* Static files: every request outside /api.  The path is given by its     *)
(* segments below the public directory; ".." leaves it.                    *)
(***************************************************************************)
\* the file a path names exists as a regular file: fs.stat without error
\* and stats.isFile()
isFile(path, pub, up) ==
  \/ Len(path) = 1 /\ path[1] \in pub
  \/ Len(path) = 2 /\ path[1] = "uploads" /\ path[2] \in up

\* serveStaticFile: fs.readFile, 404 when it fails, else 200 with the data;
\* neither payload is JSON
serveStaticFile(path, pub, up, vanished) ==
  IF ~isFile(path, pub, up) \/ vanished
  THEN [sent |-> TRUE, status |-> 404, body |-> JGarbage]
  ELSE [sent |-> TRUE, status |-> 200, body |-> JGarbage]

\* the static branch of the request handler.  vanished: the file is
\* removed between fs.stat and fs.readFile.
serveStatic(path, pub, up, vanished) ==
  LET filePath == IF path = <<>> THEN <<"index.html">> ELSE path
  IN IF filePath[1] = ".."
     THEN [sent |-> TRUE, status |-> 403, body |-> JGarbage]
     ELSE IF ~isFile(filePath, pub, up)
     THEN serveStaticFile(<<"index.html">>, pub, up, vanished)
     ELSE serveStaticFile(filePath, pub, up, vanished)

\* /, /app.js, /missing, /uploads, /../data/users.json
StaticPaths ==
  { <<>>, <<"app.js">>, <<"missing">>, <<"uploads">>, <<"..", "data", "users.json">> }

Static(path, vanished) ==
  /\ req = NoRequest
  /\ steps < MaxSteps
  /\ steps' = steps + 1
  /\ req' = [op |-> "static", user |-> 0, course |-> 0, body |-> JEmpty, now |-> 0,
             path |-> path]
  /\ res' = serveStatic(path, publicFiles, uploads, vanished)
  /\ io' = <<>>
  /\ UNCHANGED <<usersFile, coursesFile, uploads, flight, done, pgVars, publicFiles>>

\* the public directory with and without its index document
PublicStates == { {"index.html", "app.js"}, {"app.js"} }

InitPublic ==
  /\ \E st \in StoreStates : usersFile = st[1] /\ coursesFile = st[2]
  /\ \E pub \in PublicStates : publicFiles = pub
  /\ uploads = {}
  /\ req = NoRequest
  /\ res = NoReply
  /\ io = <<>>
  /\ steps = 0
  /\ flight = <<>>
  /\ done = <<>>
  /\ InitDatabase(FALSE)

\* every request of the file-backed server, in any state of its files
NextPublic ==
  \/ Next
  \/ \E path \in StaticPaths, vanished \in BOOLEAN : Static(path, vanished)
SpecPublic == InitPublic /\ [][NextPublic]_vars

(***************************************************************************)
(* Requests in flight together.  The handler is an async function whose    *)
(* only await is the one on parseRequestBody: a request is suspended there *)
(* until its body has arrived, other requests may arrive and be answered   *)
(* meanwhile, and the rest of the handler then runs without interruption.  *)
(***************************************************************************)
\* the route chain of the request handler
Handle(op, user, course, raw, now, uf, cf, up, fault) ==
  CASE op = "register" -> register(raw, uf, cf, up, fault)
    [] op = "login" -> login(raw, uf, cf, up)
    [] op = "getUserCourses" -> getUserCourses(user, uf, cf, up)
    [] op = "updateProgress" -> updateProgress(user, course, raw, uf, cf, up, fault)
    [] op = "listCourses" -> listCourses(uf, cf, up)
    [] op = "getCourse" -> getCourse(course, uf, cf, up)
    [] op = "createCourse" -> createCourse(raw, uf, cf, up, fault)
    [] op = "updateCourse" -> updateCourse(course, raw, uf, cf, up, fault)
    [] op = "listUsers" -> listUsers(uf, cf, up)
    [] op = "getUser" -> getUser(user, uf, cf, up)
    [] op = "updateUser" -> updateUser(user, raw, uf, cf, up, fault)
    [] op = "uploadPicture" -> uploadPicture(user, raw, now, uf, cf, up, fault)
    [] OTHER -> unknownRoute(uf, cf, up)

\* a handler that has read the users file before it waits for the body
usersReadBeforeAwait(atArrival, atResume) == atArrival

\* the users file a handler works on: readUsers() is called after the
\* await, so it is the file as it is when the handler resumes
usersReadAfterAwait(atArrival, atResume) == atResume

\* the mutating requests sent while others are in flight
ConcurrentRequests ==
  { [op |-> "register", user |-> 0, course |-> 0, body |-> User(St("n"), e, St("p"))] :
      e \in {St("a"), St("b")} }
  \cup { [op |-> "updateProgress", user |-> 1, course |-> 1,
          body |-> RawObject(<< <<"progress", JNumber(100)>> >>)] }

\* a request arrives: its handler runs up to the await and is suspended.
\* n numbers the request, seen is the users file at this moment, with the
\* requests it has been in flight together with.
Arrive(r) ==
  /\ steps < MaxSteps
  /\ Len(flight) < MaxFlight
  /\ steps' = steps + 1
  /\ flight' = Append([i \in DOMAIN flight |->
                         [flight[i] EXCEPT !.with = @ \cup {steps + 1}]],
                      [n |-> steps + 1, op |-> r.op, user |-> r.user, course |-> r.course,
                       body |-> r.body, seen |-> usersFile,
                       with |-> {flight[i].n : i \in DOMAIN flight}])
  /\ UNCHANGED <<usersFile, coursesFile, uploads, req, res, io, done, pgVars, publicFiles>>

\* the body of the i-th suspended request is complete: the rest of its
\* handler runs to the response
Resume(i) ==
  /\ i \in DOMAIN flight
  /\ \E p \in {flight[i]} :
       \E out \in {Handle(p.op, p.user, p.course, p.body, 0,
                          usersReadAfterAwait(p.seen, usersFile),
                          coursesFile, uploads, NoFault)} :
         /\ usersFile' = IF \E k \in DOMAIN out.io : out.io[k].file = "users"
                         THEN out.uf ELSE usersFile
         /\ coursesFile' = out.cf
         /\ uploads' = out.up
         /\ req' = [op |-> p.op, user |-> p.user, course |-> p.course,
                    body |-> p.body, now |-> 0]
         /\ res' = out.res
         /\ io' = out.io
         /\ done' = Append(done, [n |-> p.n, op |-> p.op, user |-> p.user,
                                  course |-> p.course, body |-> p.body,
                                  with |-> p.with, res |-> out.res])
  /\ flight' = [j \in 1..(Len(flight) - 1) |-> IF j < i THEN flight[j] ELSE flight[j + 1]]
  /\ UNCHANGED <<steps, pgVars, publicFiles>>

NextConcurrent ==
  \/ \E r \in ConcurrentRequests : Arrive(r)
  \/ \E i \in 1..MaxFlight : Resume(i)
SpecConcurrent == Init /\ [][NextConcurrent]_vars

(***************************************************************************)
(* Database variant (server_pg.js): an Express application over a          *)
(* PostgreSQL pool, with the sessions of logged-in users in process        *)
(* memory.  A handler is suspended at every await of pool.query; the       *)
(* statement is executed by the database as one step.                      *)
(***************************************************************************)
\* number of tokens crypto.randomBytes gives out in one behaviour
MaxTokens == 2

\* crypto.randomBytes(16).toString('hex'): 128 random bits, taken to be a
\* value that was not drawn before
Tokens == {"t" \o ToString(k) : k \in 1..MaxTokens}
randomBytes(used) == Tokens \ used

\* the properties every object literal inherits from Object.prototype
ObjectPrototypeKeys == {"constructor", "toString", "__proto__"}

\* sessions[token]: an own property, else an inherited one, else undefined
sessionsGet(own, token) ==
  IF token \in DOMAIN own THEN [kind |-> "id", id |-> own[token]]
  ELSE IF token \in ObjectPrototypeKeys THEN [kind |-> "inherited", id |-> 0]
  ELSE [kind |-> "undefined", id |-> 0]

\* an assignment that replaces the sessions object
sessionsSetOnly(own, token, id) == [t \in {token} |-> id]

\* sessions[token] = user.id
sessionsSet(own, token, id) ==
  [t \in DOMAIN own \cup {token} |-> IF t = token THEN id ELSE own[t]]

\* header.replace(/^Bearer\s+/i, '').trim(), the header given in pieces
tokenOf(header) ==
  IF header = <<>> THEN ""
  ELSE IF header[1] \in {"Bearer ", "bearer "}
       THEN (IF Len(header) > 1 THEN header[2] ELSE "")
       ELSE header[1]

\* authenticate: the user id the request runs under, or none
authenticate(header, own) ==
  LET token == tokenOf(header)
      userId == sessionsGet(own, token)
  IN IF token # "" /\ userId.kind # "undefined" /\ (userId.kind = "id" => userId.id # 0)
     THEN [ok |-> TRUE, userId |-> userId]
     ELSE [ok |-> FALSE, userId |-> userId]

\* hashPassword: SHA-256 in hex; update() throws on a value that is no string
hashThrows(password) == password.t # "str"
hashPassword(password) == Str(<<"sha256:">> \o password.s)

\* parseInt(v, 10) of a JSON value: NaN unless it is a number
parseInt(v) == IF v.t = "num" THEN [nan |-> FALSE, n |-> v.n] ELSE [nan |-> TRUE, n |-> 0]

\* the rows of table levels; no route of the server writes it
dbLevels == {1}

\* SELECT ... FROM users WHERE email = $1
selectByEmail(rows, email) == SelectSeq(rows, LAMBDA r : r.email = email)

Credentials(e, p) == RawObject(<< <<"email", e>>, <<"password", p>> >>)
AuthRegisterBodies ==
  { Credentials(St("a"), St("p")), Credentials(St("b"), St("p")),
    Credentials(St("a"), JAbsent) }
AuthLoginBodies ==
  { Credentials(St("a"), St("p")), Credentials(St("a"), St("q")),
    Credentials(St("b"), St("p")), Credentials(JAbsent, St("p")) }
SubmissionBodies ==
  { RawObject(<< <<"levelId", l>>, <<"content", c>> >>) :
      l \in {JNumber(1), JNumber(7)}, c \in {St("c")} }
  \cup { RawObject(<< <<"levelId", St("x")>>, <<"content", St("c")>> >>),
         RawObject(<< <<"levelId", JNumber(1)>> >>) }
AuthorizationHeaders ==
  { <<>>, <<"Bearer ">>, <<"Bearer ", "t1">>, <<"bearer ", "t2">>, <<"t1">>,
    <<"Bearer ", "ffff">>, <<"Bearer ", "constructor">> }

InitPg ==
  /\ usersFile = Stringify(Arr(<<>>))
  /\ coursesFile = Stringify(defaultCourses)
  /\ uploads = {}
  /\ req = NoRequest
  /\ res = NoReply
  /\ io = <<>>
  /\ steps = 0
  /\ flight = <<>>
  /\ done = <<>>
  /\ publicFiles = {"index.html", "app.js"}
  /\ \E configured \in BOOLEAN : InitDatabase(configured)

\* res.status(status).json(value), after the statements in issued
Respond(op, header, raw, status, value, issued) ==
  /\ req' = [op |-> op, user |-> 0, course |-> 0, body |-> raw, now |-> 0,
             header |-> header]
  /\ res' = Reply(status, value)
  /\ sql' = issued

\* POST /auth/register up to the result of its SELECT
AuthRegister(raw) ==
  /\ req = NoRequest
  /\ steps < MaxSteps
  /\ steps' = steps + 1
  /\ UNCHANGED <<fileVars, pool, sessions, dbUsers, dbSeq, dbSubmissions>>
  /\ LET email == Get(Parse(raw), "email")
         password == Get(Parse(raw), "password")
     IN
     IF ~Truthy(email) \/ ~Truthy(password)
     THEN /\ Respond("authRegister", <<>>, raw, 400,
                     Error("Email and password are required"), <<>>)
          /\ UNCHANGED suspended
     ELSE IF ~pool
     THEN /\ Respond("authRegister", <<>>, raw, 500, Error("Database not configured"), <<>>)
          /\ UNCHANGED suspended
     ELSE IF Len(selectByEmail(dbUsers, email)) > 0
     THEN /\ Respond("authRegister", <<>>, raw, 409, Error("User already exists"),
                     <<"SELECT users">>)
          /\ UNCHANGED suspended
     ELSE /\ Len(suspended) < MaxFlight
          /\ suspended' = Append(suspended, [email |-> email, password |-> password,
                                             body |-> raw])
          /\ UNCHANGED <<req, res, sql>>

\* POST /auth/register from its INSERT on.  users.email is UNIQUE: the
\* statement fails when a row has the email, after taking a sequence value
AuthRegisterInsert(i) ==
  /\ req = NoRequest
  /\ i \in DOMAIN suspended
  /\ suspended' = [j \in 1..(Len(suspended) - 1) |->
                     IF j < i THEN suspended[j] ELSE suspended[j + 1]]
  /\ UNCHANGED <<fileVars, steps, pool, sessions, dbSubmissions>>
  /\ \E p \in {suspended[i]} :
       IF hashThrows(p.password)
       THEN /\ Respond("authRegister", <<>>, p.body, 500, Error("Failed to register user"),
                       <<"SELECT users">>)
            /\ UNCHANGED <<dbUsers, dbSeq>>
       ELSE IF Len(selectByEmail(dbUsers, p.email)) > 0
       THEN /\ Respond("authRegister", <<>>, p.body, 500, Error("Failed to register user"),
                       <<"SELECT users", "INSERT users">>)
            /\ dbSeq' = dbSeq + 1
            /\ UNCHANGED dbUsers
       ELSE /\ Respond("authRegister", <<>>, p.body, 201,
                       Obj(<< <<"id", Num(dbSeq + 1)>>, <<"email", p.email>> >>),
                       <<"SELECT users", "INSERT users">>)
            /\ dbSeq' = dbSeq + 1
            /\ dbUsers' = Append(dbUsers, [id |-> dbSeq + 1, email |-> p.email,
                                           password_hash |-> hashPassword(p.password)])

\* POST /auth/login
AuthLogin(raw) ==
  /\ req = NoRequest
  /\ steps < MaxSteps
  /\ steps' = steps + 1
  /\ UNCHANGED <<fileVars, pool, dbUsers, dbSeq, dbSubmissions, suspended>>
  /\ LET email == Get(Parse(raw), "email")
         password == Get(Parse(raw), "password")
         result == selectByEmail(dbUsers, email)
     IN
     IF ~Truthy(email) \/ ~Truthy(password)
     THEN /\ Respond("authLogin", <<>>, raw, 400,
                     Error("Email and password are required"), <<>>)
          /\ UNCHANGED sessions
     ELSE IF ~pool
     THEN /\ Respond("authLogin", <<>>, raw, 500, Error("Database not configured"), <<>>)
          /\ UNCHANGED sessions
     ELSE IF Len(result) = 0
     THEN /\ Respond("authLogin", <<>>, raw, 401, Error("Invalid credentials"),
                     <<"SELECT users">>)
          /\ UNCHANGED sessions
     ELSE IF hashThrows(password)
     THEN /\ Respond("authLogin", <<>>, raw, 500, Error("Failed to login"),
                     <<"SELECT users">>)
          /\ UNCHANGED sessions
     ELSE IF result[1].password_hash # hashPassword(password)
     THEN /\ Respond("authLogin", <<>>, raw, 401, Error("Invalid credentials"),
                     <<"SELECT users">>)
          /\ UNCHANGED sessions
     ELSE \E token \in randomBytes(DOMAIN sessions) :
            /\ sessions' = sessionsSet(sessions, token, result[1].id)
            /\ Respond("authLogin", <<>>, raw, 200,
                       Obj(<< <<"token", S(token)>>, <<"userId", Num(result[1].id)>> >>),
                       <<"SELECT users">>)

\* POST /api/submissions behind authenticate.  The INSERT fails when the
\* user id is no integer or no level has the level id (foreign key).
Submission(header, raw) ==
  /\ req = NoRequest
  /\ steps < MaxSteps
  /\ steps' = steps + 1
  /\ UNCHANGED <<fileVars, pool, sessions, dbUsers, dbSeq, suspended>>
  /\ LET auth == authenticate(header, sessions)
         levelIdInt == parseInt(Get(Parse(raw), "levelId"))
         content == Get(Parse(raw), "content")
     IN
     IF ~auth.ok
     THEN /\ Respond("submission", header, raw, 401, Error("Unauthorized"), <<>>)
          /\ UNCHANGED dbSubmissions
     ELSE IF levelIdInt.nan \/ ~Truthy(content)
     THEN /\ Respond("submission", header, raw, 400,
                     Error("Invalid level ID or content missing"), <<>>)
          /\ UNCHANGED dbSubmissions
     ELSE IF ~pool
     THEN /\ Respond("submission", header, raw, 500, Error("Database not configured"), <<>>)
          /\ UNCHANGED dbSubmissions
     ELSE IF auth.userId.kind # "id" \/ levelIdInt.n \notin dbLevels
     THEN /\ Respond("submission", header, raw, 500, Error("Failed to create submission"),
                     <<"INSERT submissions">>)
          /\ UNCHANGED dbSubmissions
     ELSE /\ Respond("submission", header, raw, 201,
                     Obj(<< <<"id", Num(Len(dbSubmissions) + 1)>>,
                            <<"user_id", Num(auth.userId.id)>>,
                            <<"level_id", Num(levelIdInt.n)>>,
                            <<"content", content>> >>),
                     <<"INSERT submissions">>)
          /\ dbSubmissions' = Append(dbSubmissions,
                                     [user_id |-> auth.userId.id,
                                      level_id |-> levelIdInt.n, content |-> content])

NextPg ==
  \/ \E raw \in AuthRegisterBodies : AuthRegister(raw)
  \/ \E i \in 1..MaxFlight : AuthRegisterInsert(i)
  \/ \E raw \in AuthLoginBodies : AuthLogin(raw)
  \/ \E header \in AuthorizationHeaders, raw \in SubmissionBodies : Submission(header, raw)
  \/ Finish
SpecPg == InitPg /\ [][NextPg]_vars

(***************************************************************************)
(* Properties.                                                             *)
(***************************************************************************)
\* the documents as a handler reads them
Users == readUsers(usersFile)
Courses == readCourses(coursesFile)
Answered(op, status) == req.op = op /\ res.sent /\ res.status = status

\* some stored user has this email, ignoring letter case
EmailInStore(users, email) ==
  /\ email.t = "str"
  /\ \E i \in DOMAIN users.a :
       /\ Get(users.a[i], "email").t = "str"
       /\ toLowerCase(Get(users.a[i], "email").s) = toLowerCase(email.s)

\* C1: a registration whose email equals, ignoring case, the email of a
\* stored user is answered 409 whatever name and password it gives, and the
\* users file is left as it was.  (Stated for a name and a password that are
\* given: a missing one is answered 400 before the store is read.)
C1_DuplicateEmailIs409 ==
  [][ ( /\ req'.op = "register"
        /\ Truthy(Get(parseRequestBody(req'.body), "name"))
        /\ Truthy(Get(parseRequestBody(req'.body), "password"))
        /\ EmailInStore(Users, Get(parseRequestBody(req'.body), "email")) )
      => (res'.sent /\ res'.status = 409 /\ usersFile' = usersFile) ]_vars

\* C2: the ids in the users store are pairwise distinct positive integers,
\* and a successful registration stores the new user under an id that is
\* max-existing + 1 (1 for an empty store), above every id given out before.
DistinctPositiveIds(users) ==
  /\ \A i \in DOMAIN users.a :
       Get(users.a[i], "id").t = "num" /\ Get(users.a[i], "id").n >= 1
  /\ \A i, j \in DOMAIN users.a :
       Get(users.a[i], "id") = Get(users.a[j], "id") => i = j

C2_IdsUniqueIncreasing ==
  [][ \A old \in {Users}, new \in {readUsers(usersFile')} :
        /\ DistinctPositiveIds(new)
        /\ (req'.op = "register" /\ res'.sent /\ res'.status = 200) =>
             \A id \in {Get(Parse(res'.body), "id")} :
               /\ Len(new.a) = Len(old.a) + 1
               /\ Get(new.a[Len(new.a)], "id") = id
               /\ \A i \in DOMAIN old.a : Get(old.a[i], "id").n < id.n
               /\ id.n = IF old.a = <<>> THEN 1
                         ELSE SetMax({Get(old.a[i], "id").n : i \in DOMAIN old.a}) + 1 ]_vars

\* two registrations have succeeded, the second under a larger id
C2_Witness ==
  /\ Answered("register", 200)
  /\ Len(Users.a) = 2
  /\ Get(Users.a[1], "id").n < Get(Users.a[2], "id").n

\* some stored user has this email, ignoring case, and exactly this password
CredentialsMatch(users, email, password) ==
  /\ email.t = "str"
  /\ \E i \in DOMAIN users.a :
       /\ Get(users.a[i], "email").t = "str"
       /\ toLowerCase(Get(users.a[i], "email").s) = toLowerCase(email.s)
       /\ Get(users.a[i], "password") = password

\* C3: a login is answered 200 if and only if some stored user has the
\* given email, ignoring case, and exactly the given password; every other
\* pair is answered 401.  (Stated for an email and a password that are
\* given: a missing one is answered 400.)
C3_LoginIffCredentialsMatch ==
  [][ ( /\ req'.op = "login"
        /\ Truthy(Get(parseRequestBody(req'.body), "email"))
        /\ Truthy(Get(parseRequestBody(req'.body), "password")) )
      => /\ res'.sent
         /\ res'.status =
              IF CredentialsMatch(Users, Get(parseRequestBody(req'.body), "email"),
                                  Get(parseRequestBody(req'.body), "password"))
              THEN 200 ELSE 401 ]_vars

\* the body is a JSON object whose progress member is a number in [0,100]
ValidProgressText(raw) ==
  /\ raw.k = "object"
  /\ \E i \in DOMAIN raw.a :
       /\ raw.a[i][1] = "progress"
       /\ raw.a[i][2].k = "number"
       /\ raw.a[i][2].n >= 0
       /\ raw.a[i][2].n <= 100

\* C4: a progress update whose body carries no number within [0,100] as
\* progress is answered 400 for every user id and course id, and the stored
\* progress values are the same after it as before.
C4_InvalidProgressIs400 ==
  [][ (req'.op = "updateProgress" /\ ~ValidProgressText(req'.body))
      => (res'.sent /\ res'.status = 400 /\ usersFile' = usersFile) ]_vars

HasUser(users, id) == \E i \in DOMAIN users.a : Get(users.a[i], "id") = Num(id)
HasRecord(users, id, courseId) ==
  \E i \in DOMAIN users.a :
    /\ Get(users.a[i], "id") = Num(id)
    /\ \E j \in DOMAIN Get(users.a[i], "courses").a :
         Get(Get(users.a[i], "courses").a[j], "id") = Num(courseId)

\* C5: a progress update with a valid value for a user that does not exist,
\* or for a course the user has no record of, is answered 404 and does not
\* write the users file.
C5_UnknownTargetIs404NoWrite ==
  [][ ( /\ req'.op = "updateProgress"
        /\ ValidProgressText(req'.body)
        /\ ~HasRecord(Users, req'.user, req'.course) )
      => /\ res'.sent
         /\ res'.status = 404
         /\ \A k \in DOMAIN io' : io'[k].file # "users"
         /\ usersFile' = usersFile ]_vars

\* a valid value was sent for a course an existing user has no record of
C5_Witness ==
  /\ Answered("updateProgress", 404)
  /\ ValidProgressText(req.body)
  /\ HasUser(Users, req.user)
  /\ ~HasRecord(Users, req.user, req.course)

\* C6: right after a successful course creation every user that was in the
\* store before it has a record for the new course id, with progress 0.
C6_NewCourseReachesEveryUser ==
  [][ (req'.op = "createCourse" /\ res'.sent /\ res'.status = 200)
      => \A newId \in {Get(Parse(res'.body), "id")},
            before \in {Users}, after \in {readUsers(usersFile')} :
           \A i \in DOMAIN before.a :
             \E j \in DOMAIN after.a :
               /\ Get(after.a[j], "id") = Get(before.a[i], "id")
               /\ \A recs \in {Get(after.a[j], "courses").a} :
                    /\ \E r \in DOMAIN recs : Get(recs[r], "id") = newId
                    /\ \A r \in DOMAIN recs :
                         Get(recs[r], "id") = newId => Get(recs[r], "progress") = Num(0) ]_vars

\* a course was created while a user with progress above 0 was in the store
C6_Witness ==
  /\ Answered("createCourse", 200)
  /\ \E i \in DOMAIN Users.a :
       /\ HasRecord(Users, Get(Users.a[i], "id").n, Get(Parse(res.body), "id").n)
       /\ \E j \in DOMAIN Get(Users.a[i], "courses").a :
            Get(Get(Users.a[i], "courses").a[j], "progress") = Num(100)

RECURSIVE NoPasswordKey(_)
\* no object in the text has a member named password
NoPasswordKey(j) ==
  CASE j.k = "array" -> \A i \in DOMAIN j.a : NoPasswordKey(j.a[i])
    [] j.k = "object" ->
         \A i \in DOMAIN j.a : j.a[i][1] # "password" /\ NoPasswordKey(j.a[i][2])
    [] OTHER -> TRUE

\* C8: no response of an endpoint that returns a user (register, login,
\* GET and PUT/PATCH /api/user/:id, GET /api/admin/users) has a password
\* member in its body.
C8_NoPasswordInResponse ==
  (res.sent /\ req.op \in {"register", "login", "getUser", "updateUser", "listUsers"})
    => NoPasswordKey(res.body)

\* the list of users was returned and the stored users have passwords
C8_Witness ==
  /\ Answered("listUsers", 200)
  /\ Len(Users.a) = 2
  /\ \A i \in DOMAIN Users.a : HasKey(Users.a[i], "password")
  /\ Len(res.body.a) = 2

\* C9: no two distinct stored users have emails that are equal ignoring
\* letter case.
C9_EmailsUniqueIgnoringCase ==
  \A i, j \in DOMAIN Users.a :
    ( /\ i # j
      /\ Get(Users.a[i], "email").t = "str"
      /\ Get(Users.a[j], "email").t = "str" )
    => toLowerCase(Get(Users.a[i], "email").s) # toLowerCase(Get(Users.a[j], "email").s)

IdsOf(arr) == [i \in DOMAIN arr |-> Get(arr[i], "id")]

\* C10: in every state, also one left by a request whose write failed,
\* each user has exactly one progress record for each course in the courses
\* store and none for any other id.
C10_ProgressInSyncWithCourses ==
  \A i \in DOMAIN Users.a :
    LET recs == IdsOf(Get(Users.a[i], "courses").a)
    IN /\ \A r, q \in DOMAIN recs : recs[r] = recs[q] => r = q
       /\ {recs[r] : r \in DOMAIN recs} = {IdsOf(Courses.a)[c] : c \in DOMAIN Courses.a}

\* the documents a request leaves, re-read from disk
UsersAfter == readUsers(usersFile')
CoursesAfter == readCourses(coursesFile')
BodyAfter == parseRequestBody(req'.body)
Succeeded(op) == req'.op = op /\ res'.sent /\ res'.status = 200

\* o with the members of body among keys written over it, the others kept
WithGiven(o, body, keys) ==
  Obj([i \in DOMAIN o.a |->
        IF o.a[i][1] \in keys /\ HasKey(body, o.a[i][1])
        THEN <<o.a[i][1], Get(body, o.a[i][1])>> ELSE o.a[i]])

\* the change each successful mutating request is to make, and nothing else
RegisterChange ==
  /\ CoursesAfter = Courses
  /\ Len(UsersAfter.a) = Len(Users.a) + 1
  /\ SubSeq(UsersAfter.a, 1, Len(Users.a)) = Users.a
  /\ LET u == UsersAfter.a[Len(UsersAfter.a)]
     IN /\ Get(u, "name") = Get(BodyAfter, "name")
        /\ Get(u, "email") = Get(BodyAfter, "email")
        /\ Get(u, "password") = Get(BodyAfter, "password")
        /\ Get(u, "profilePicture") = Null
        /\ Get(u, "courses") =
             Arr([c \in DOMAIN Courses.a |->
                    Obj(<< <<"id", Get(Courses.a[c], "id")>>, <<"progress", Num(0)>> >>)])

ProgressChange ==
  /\ CoursesAfter = Courses
  /\ UsersAfter =
       Arr([i \in DOMAIN Users.a |->
         IF Get(Users.a[i], "id") # Num(req'.user) THEN Users.a[i]
         ELSE Set(Users.a[i], "courses",
                Arr([j \in DOMAIN Get(Users.a[i], "courses").a |->
                  LET rec == Get(Users.a[i], "courses").a[j]
                  IN IF Get(rec, "id") = Num(req'.course)
                     THEN Set(rec, "progress", Get(BodyAfter, "progress")) ELSE rec]))])

CreateCourseChange ==
  LET newId == Get(Parse(res'.body), "id")
  IN /\ Len(CoursesAfter.a) = Len(Courses.a) + 1
     /\ SubSeq(CoursesAfter.a, 1, Len(Courses.a)) = Courses.a
     /\ LET c == CoursesAfter.a[Len(CoursesAfter.a)]
        IN /\ Get(c, "id") = newId
           /\ Get(c, "title") = Get(BodyAfter, "title")
           /\ HasKey(BodyAfter, "description") =>
                Get(c, "description") = Get(BodyAfter, "description")
     /\ UsersAfter =
          Arr([i \in DOMAIN Users.a |->
            Set(Users.a[i], "courses",
                Arr(Append(Get(Users.a[i], "courses").a,
                           Obj(<< <<"id", newId>>, <<"progress", Num(0)>> >>))))])

UpdateCourseChange ==
  /\ UsersAfter = Users
  /\ CoursesAfter =
       Arr([i \in DOMAIN Courses.a |->
         IF Get(Courses.a[i], "id") # Num(req'.course) THEN Courses.a[i]
         ELSE WithGiven(Courses.a[i], BodyAfter, {"title", "description", "content"})])

UpdateUserChange ==
  /\ CoursesAfter = Courses
  /\ UsersAfter =
       Arr([i \in DOMAIN Users.a |->
         IF Get(Users.a[i], "id") # Num(req'.user) THEN Users.a[i]
         ELSE WithGiven(Users.a[i], BodyAfter, {"name", "email", "password"})])

UploadChange ==
  /\ CoursesAfter = Courses
  /\ UsersAfter =
       Arr([i \in DOMAIN Users.a |->
         IF Get(Users.a[i], "id") # Num(req'.user) THEN Users.a[i]
         ELSE Set(Users.a[i], "profilePicture", Get(Parse(res'.body), "url"))])

\* C7: after a successful mutating request the users and courses documents,
\* re-read from disk, are the documents as they were before the request
\* with that request's change applied and nothing else changed.
C7_RereadShowsExactlyTheChange ==
  [][ /\ Succeeded("register") => RegisterChange
      /\ Succeeded("updateProgress") => ProgressChange
      /\ Succeeded("createCourse") => CreateCourseChange
      /\ Succeeded("updateCourse") => UpdateCourseChange
      /\ Succeeded("updateUser") => UpdateUserChange
      /\ Succeeded("uploadPicture") => UploadChange ]_vars

\* the mutation of an answered request is in the users document
Reflected(d, users) ==
  \/ /\ d.op = "register"
     /\ \E i \in DOMAIN users.a :
          /\ Get(users.a[i], "id") = Get(Parse(d.res.body), "id")
          /\ Get(users.a[i], "email") = Get(parseRequestBody(d.body), "email")
  \/ /\ d.op = "updateProgress"
     /\ \E i \in DOMAIN users.a :
          /\ Get(users.a[i], "id") = Num(d.user)
          /\ \E j \in DOMAIN Get(users.a[i], "courses").a :
               /\ Get(Get(users.a[i], "courses").a[j], "id") = Num(d.course)
               /\ Get(Get(users.a[i], "courses").a[j], "progress")
                    = Get(parseRequestBody(d.body), "progress")

\* two answered requests that were in flight together, both with success
BothSucceeded(i, j) ==
  /\ i # j
  /\ done[j].n \in done[i].with
  /\ done[i].res.sent /\ done[i].res.status = 200
  /\ done[j].res.sent /\ done[j].res.status = 200

C12_WriteFailureIs500 ==
  [][ (\E k \in DOMAIN io' : io'[k].file \in {"users", "courses"} /\ ~io'[k].ok)
      => (res'.sent /\ res'.status = 500) ]_vars

\* C13: loading the users store and loading the courses store each give the
\* empty array, and raise nothing into the request handler, when the file
\* is absent and when its content is not parsable JSON: the two list
\* requests are then answered 200 with [].
C13_LoadGivesEmptyArray ==
  [][ /\ (req'.op = "listUsers" /\ ~Parsable(usersFile))
         => (res'.sent /\ res'.status = 200 /\ res'.body = Stringify(Arr(<<>>)))
      /\ (req'.op = "listCourses" /\ ~Parsable(coursesFile))
         => (res'.sent /\ res'.status = 200 /\ res'.body = Stringify(Arr(<<>>))) ]_vars

\* C14: a request whose body is not valid JSON is handled exactly as the
\* same request with the body {}: it gets the same response, which is
\* never missing, and leaves the same files.
C14_InvalidJsonAsEmptyObject ==
  [][ req'.body.k = "garbage" =>
        \A o \in {Handle(req'.op, req'.user, req'.course, RawObject(<<>>), req'.now,
                         usersFile, coursesFile, uploads, NoFault)} :
          /\ res'.sent
          /\ res' = o.res
          /\ usersFile' = o.uf
          /\ coursesFile' = o.cf
          /\ uploads' = o.up
          /\ io' = o.io ]_vars

\* a profile update with a body that is not JSON was answered like one
\* without fields, and a registration with such a body was refused
C14_Witness ==
  /\ req.body = JGarbage
  /\ Answered("updateUser", 200)
  /\ Len(Users.a) = 2

\* C15: a submission whose Authorization header carries no token, or a
\* token that is not a key of the session map, is answered 401 and issues
\* no SQL statement, with and without a configured database.
C15_NoSessionIs401NoSql ==
  [][ ( /\ req'.op = "submission"
        /\ tokenOf(req'.header) \notin DOMAIN sessions )
      => (res'.sent /\ res'.status = 401 /\ sql' = <<>>) ]_vars

\* C16: a registration for an email that has a user row when it is answered
\* is answered 409, also the later of two registrations for the same new
\* email that were processed together, and no two rows have the same email.
\* (Stated for a password that is given: a missing one is answered 400.)
C16_ExistingEmailIs409 ==
  [][ /\ ( /\ req'.op = "authRegister"
           /\ Truthy(Get(Parse(req'.body), "password"))
           /\ Len(selectByEmail(dbUsers, Get(Parse(req'.body), "email"))) > 0 )
         => (res'.sent /\ res'.status = 409)
      /\ \A i, j \in DOMAIN dbUsers' :
           dbUsers'[i].email = dbUsers'[j].email => i = j ]_vars

\* C17: a token a login has minted maps to the user id of that login, and
\* every step keeps every entry of the session map as it is: none is
\* removed and none is mapped to another user.
C17_SessionsKept ==
  [][ /\ \A t \in DOMAIN sessions : t \in DOMAIN sessions' /\ sessions'[t] = sessions[t]
      /\ (req'.op = "authLogin" /\ res'.sent /\ res'.status = 200) =>
           \A reply \in {Parse(res'.body)} :
             /\ Get(reply, "token").s[1] \in DOMAIN sessions'
             /\ Num(sessions'[Get(reply, "token").s[1]]) = Get(reply, "userId")
             /\ \E i \in DOMAIN dbUsers :
                  /\ dbUsers[i].id = Get(reply, "userId").n
                  /\ dbUsers[i].email = Get(Parse(req'.body), "email") ]_vars

\* two logins have minted a token each and a later submission was stored
\* under one of them
C17_Witness ==
  /\ Cardinality(DOMAIN sessions) = 2
  /\ req.op = "submission"
  /\ res.sent
  /\ res.status = 201

\* the email belongs, ignoring letter case, to a stored user other than id
EmailOfAnother(users, id, email) ==
  /\ email.t = "str"
  /\ \E i \in DOMAIN users.a :
       /\ Get(users.a[i], "id") # Num(id)
       /\ Get(users.a[i], "email").t = "str"
       /\ toLowerCase(Get(users.a[i], "email").s) = toLowerCase(email.s)

\* C18: a profile update that succeeds overwrites those of name, email and
\* password that the body gives and leaves the user's id, progress records
\* and picture, every other user and the courses as they were; when the
\* new email belongs, ignoring case, to another user, the update of an
\* existing user is answered 409 and nothing is changed.
C18_PartialOverwriteOr409 ==
  [][ req'.op = "updateUser" =>
        /\ (res'.sent /\ res'.status = 200) => UpdateUserChange
        /\ ( /\ HasUser(Users, req'.user)
             /\ EmailOfAnother(Users, req'.user, Get(BodyAfter, "email")) )
           => /\ res'.sent
              /\ res'.status = 409
              /\ usersFile' = usersFile
              /\ coursesFile' = coursesFile ]_vars

\* the progress records stored in users for the user with this id
RecordsOf(users, userId) ==
  UNION { {Get(users.a[i], "courses").a[j] : j \in DOMAIN Get(users.a[i], "courses").a} :
            i \in {i \in DOMAIN users.a : Get(users.a[i], "id") = userId} }

\* the progress values among these records for this course id
ProgressOf(records, courseId) ==
  {Get(r, "progress") : r \in {r \in records : Get(r, "id") = courseId}}

\* C19: after every step every stored progress value is a number within
\* [0,100]; a record that was not there before has progress 0, and a value
\* that differs from the one stored before is the value of a progress
\* update for that user and course that was answered with success.
C19_ProgressWithinRange ==
  [][ usersFile' # usersFile =>
      \A old \in {Users}, new \in {readUsers(usersFile')} :
        \A i \in DOMAIN new.a :
          \A userId \in {Get(new.a[i], "id")} :
            \A now \in {RecordsOf(new, userId)}, was \in {RecordsOf(old, userId)} :
              \A r \in now \ was :
                \A v \in {Get(r, "progress")}, before \in {ProgressOf(was, Get(r, "id"))} :
                  /\ v.t = "num" /\ v.n >= 0 /\ v.n <= 100
                  /\ before = {} => v = Num(0)
                  /\ before # {} =>
                       /\ req'.op = "updateProgress"
                       /\ res'.sent /\ res'.status = 200
                       /\ userId = Num(req'.user)
                       /\ Get(r, "id") = Num(req'.course)
                       /\ v = Get(BodyAfter, "progress") ]_vars

\* a progress update has stored 100 for one course of a user whose other
\* records are still at 0
C19_Witness ==
  /\ Answered("updateProgress", 200)
  /\ ProgressOf(RecordsOf(Users, Num(req.user)), Num(req.course)) = {Num(100)}
  /\ ProgressOf(RecordsOf(Users, Num(req.user)), Num(2)) = {Num(0)}

\* C20: a profile-picture upload that is answered with an error (400 for
\* invalid image data, 404 for an unknown user) adds no file to the uploads
\* directory and does not write the users store.
C20_FailedUploadChangesNothing ==
  [][ (req'.op = "uploadPicture" /\ res'.sent /\ res'.status \in {400, 404})
      => /\ uploads' = uploads
         /\ usersFile' = usersFile
         /\ \A k \in DOMAIN io' : io'[k].file # "users" ]_vars

\* C21: every request whose body has been received in full is answered
\* with one response, whatever the state of the data files and of the
\* public directory: no handler path ends without a response.
C21_EveryRequestAnswered ==
  [][ req'.op # "none" => res'.sent ]_vars

====
